---- MODULE Spec2Model ----
(***************************************************************************)
(* A model of route_generator.py: the candidate parser                     *)
(* (extract_name_city), the matcher (match_generic) and the main flow      *)
(* (process_route).                                                        *)
(*                                                                         *)
(* Conventions.                                                            *)
(*  - Python strings are TLA+ strings; "" is the empty string and the      *)
(*    value None is the string NoneVal, which no column or key uses.       *)
(*  - A similarity score is a float in [0,100] in the code (rapidfuzz      *)
(*    returns floats).  The model counts scores in tenths of a point, so   *)
(*    739 is 73.9; int(score) is score \div 10 and a comparison            *)
(*    score >= thr reads score >= thr * 10.                                *)
(*  - The reference table is a record [columns, rows]; a row is a function *)
(*    from column name to cell text; the pandas index label of a row is    *)
(*    its position in rows, counted from 1 here (pandas counts from 0).    *)
(***************************************************************************)
EXTENDS Integers, Sequences, FiniteSets, TLC

VARIABLES
  keys,        \* process_route: keys, the parsed candidates (list of dicts)
  ref_df,      \* process_route: ref_df, the reference table
  addr_col,    \* process_route: addr_col (NoneVal when not detected)
  name_col,    \* process_route: name_col (NoneVal when not detected)
  used_col,    \* process_route: used_col, passed to match_generic as ref_col
  city_col,    \* process_route: city_col (NoneVal when no city column)
  name_score,  \* rapidfuzz behind name_match: <<key, cell>> -> score (tenths)
  city_score,  \* rapidfuzz behind city_match: <<city, cell>> -> score (tenths)
  idx,         \* match_generic: number of candidates the loop has processed
  rows,        \* match_generic: rows, the output rows so far
  not_found,   \* match_generic: not_found, the base unresolved list
  hints,       \* match_generic: hints
  loc,         \* match_generic: the locals of the last loop iteration
  pc,          \* position of process_route
  report,      \* the dict process_route returns (NoneVal before)
  files,       \* the output directory: path -> content written
  now,         \* the wall clock, in half seconds
  lines,       \* extract_name_city: lines
  i,           \* extract_name_city: i, the cursor of the walk
  buf_name,    \* extract_name_city: buf_name
  results,     \* extract_name_city: results
  ppc,         \* position of extract_name_city
  run          \* the invocations of process_route by the web service

matchVars == <<keys, ref_df, addr_col, name_col, used_col, city_col, name_score, city_score,
               idx, rows, not_found, hints, loc, pc, report, files, now>>

parseVars == <<lines, i, buf_name, results, ppc>>

vars == <<matchVars, parseVars, run>>

NoneVal == "<None>"

\* ---------------------------------------------------------------- settings

NAME_FUZZ == 80
NAME_FUZZ_WITH_CITY == 74
CITY_FUZZ == 86

\* ------------------------------------------------------------------ bounds

MaxCands == 2
MaxRows == 2
MaxLines == 4

\* Manifest lines: names, city tokens, a parcel code, a header word, a
\* weight; "RAISIO" and "P12345678" are city tokens that looks_like_noise
\* accepts too, "Ab / Cd." is a name squash_name shortens, "street Main 5"
\* is an address line.
LinePool ==
  { "Acme Oy", "TURKU", "RAISIO", "P12345678", "Miasto", "Ab / Cd.", "12.5 kg",
    "street Main 5" }

\* Candidates as the parser produces them: one from the name+city walk
\* (key = "name, city") and one from the address fallback (city = "").
CandPool ==
  { [key |-> "Acme, TURKU", name |-> "Acme", city |-> "TURKU"],
    [key |-> "ul. Dluga 5", name |-> "ul. Dluga 5", city |-> ""] }

\* Reference rows: the cell of the match column and the cell of the city
\* column (left out when the table has no city column).
RowPool ==
  { [address |-> "Acme Oy", city |-> "Turku"],
    [address |-> "Acme Oy", city |-> "Raisio"],
    [address |-> "Dluga 5", city |-> "Turku"] }

\* Scores rapidfuzz may return, in tenths: just below and exactly at each
\* name threshold a key can meet (a key without city only meets NAME_FUZZ),
\* and at the city threshold.
NameScores(key) ==
  IF \E c \in CandPool : c.key = key /\ c.city # ""
  THEN {739, 740, 800}
  ELSE {799, 800}
CityScores == {859, 860}

SeqsUpTo(S, n) == UNION { [1..k -> S] : k \in 0..n }

Range(s) == { s[k] : k \in DOMAIN s }

\* ----------------------------------------------------------------- strings
\* Texts are ASCII here.  The code's patterns also name letters outside
\* ASCII (Cyrillic column names, accented capitals); no ASCII text matches
\* those alternatives, so they are left out of the lists below.

LowerAlpha == "abcdefghijklmnopqrstuvwxyz"
UpperAlpha == "ABCDEFGHIJKLMNOPQRSTUVWXYZ"
DigitChars == "0123456789"

Ch(s, k) == SubSeq(s, k, k)

CharsOf(s) == { Ch(s, k) : k \in 1..Len(s) }

IsLower(c) == c \in CharsOf(LowerAlpha)
IsUpper(c) == c \in CharsOf(UpperAlpha)
IsDigit(c) == c \in CharsOf(DigitChars)
IsAlpha(c) == IsLower(c) \/ IsUpper(c)

\* str.lower() and str.upper(), one character
LowerCh(c) ==
  IF IsUpper(c)
  THEN Ch(LowerAlpha, CHOOSE k \in 1..26 : Ch(UpperAlpha, k) = c)
  ELSE c

UpperCh(c) ==
  IF IsLower(c)
  THEN Ch(UpperAlpha, CHOOSE k \in 1..26 : Ch(LowerAlpha, k) = c)
  ELSE c

\* The text made of F(c) for each character c of s, in order (F(c) may be
\* empty, which drops c).
MapStr(s, F(_)) ==
  LET f[k \in 0..Len(s)] == IF k = 0 THEN "" ELSE f[k - 1] \o F(Ch(s, k))
  IN f[Len(s)]

Lower(s) == MapStr(s, LowerCh)
Upper(s) == MapStr(s, UpperCh)

StartsWith(s, pre) == Len(pre) <= Len(s) /\ SubSeq(s, 1, Len(pre)) = pre

\* sub in s
Contains(s, sub) ==
  \E k \in 1..(Len(s) - Len(sub) + 1) : SubSeq(s, k, k + Len(sub) - 1) = sub

\* ------------------------------------------------------------------ parser
\* White space inside a line is the blank only (read_pdf_lines splits the
\* text into lines and strips them).

CITY_UPPER_HINT == TRUE
KNOWN_CITIES == {"TURKU", "KAARINA", "RAISIO", "NAANTALI", "PIISPANRISTI"}

IsSpace(c) == c = " "

\* str.lstrip(chars), str.rstrip(chars), str.strip(chars)
LStrip(s, cs) ==
  LET k == CHOOSE k \in 0..Len(s) :
             /\ \A j \in 1..k : Ch(s, j) \in cs
             /\ (k = Len(s) \/ Ch(s, k + 1) \notin cs)
  IN SubSeq(s, k + 1, Len(s))

RStrip(s, cs) ==
  LET k == CHOOSE k \in 0..Len(s) :
             /\ \A j \in (k + 1)..Len(s) : Ch(s, j) \in cs
             /\ (k = 0 \/ Ch(s, k) \notin cs)
  IN SubSeq(s, 1, k)

StripChars(s, cs) == RStrip(LStrip(s, cs), cs)

\* str.strip()
Strip(s) == StripChars(s, {" ", "\n", "\t"})

\* the characters of strip(",. ")
Punct == {",", ".", " "}

\* line 46: every character that is neither a letter nor "-" becomes a blank
CityCh(c) == IF IsAlpha(c) \/ c = "-" THEN c ELSE " "

\* lines 45-51
is_city_token(s) ==
  LET s_clean == Strip(MapStr(s, CityCh))
  IN IF s_clean = "" THEN FALSE
     ELSE IF /\ CITY_UPPER_HINT
             /\ Upper(s_clean) = s_clean
             /\ \E k \in 1..Len(s_clean) : IsAlpha(Ch(s_clean, k))
          THEN TRUE
          ELSE Upper(s_clean) \in KNOWN_CITIES

IsWordCh(c) == IsAlpha(c) \/ IsDigit(c) \/ c = "_"

AllSpaces(s, a, b) == \A k \in a..b : IsSpace(Ch(s, k))

\* line 56, first alternative: \d\s*[/.-]_?\s*\w
NoiseSeparated(s) ==
  \E j \in 2..(Len(s) - 1) :
     /\ Ch(s, j) \in {"/", ".", "-"}
     /\ \E d \in 1..(j - 1) : IsDigit(Ch(s, d)) /\ AllSpaces(s, d + 1, j - 1)
     /\ \E w \in (j + 1)..Len(s) :
           /\ IsWordCh(Ch(s, w))
           /\ \/ AllSpaces(s, j + 1, w - 1)
              \/ (Ch(s, j + 1) = "_" /\ AllSpaces(s, j + 2, w - 1))

\* line 56, second alternative: \d{2,}[A-Z]+
NoiseDigitsCaps(s) ==
  \E q \in 3..Len(s) :
     IsUpper(Ch(s, q)) /\ IsDigit(Ch(s, q - 1)) /\ IsDigit(Ch(s, q - 2))

\* line 56, third alternative: ^[A-Z0-9/_ -]{6,}$
NoiseCodeLine(s) ==
  /\ Len(s) >= 6
  /\ \A k \in 1..Len(s) :
        IsUpper(Ch(s, k)) \/ IsDigit(Ch(s, k)) \/ Ch(s, k) \in {"/", "_", " ", "-"}

\* line 59: fullmatch [P\d ,;/-]+
NoiseParcelList(s) ==
  /\ Len(s) >= 1
  /\ \A k \in 1..Len(s) :
        Ch(s, k) = "P" \/ IsDigit(Ch(s, k)) \/ Ch(s, k) \in {" ", ",", ";", "/", "-"}

\* lines 54-61
looks_like_noise(s) ==
  \/ NoiseSeparated(s)
  \/ NoiseDigitsCaps(s)
  \/ NoiseCodeLine(s)
  \/ NoiseParcelList(s)

\* line 84, the alternatives an ASCII line can start with
HEADER_WORDS ==
  << "List transportowy", "Suma paczek", "Numer", "paczki", "spedycji",
     "Nazwa odbiorcy", "Miasto", "Numery paczek", "Waga", "Arkusz/List" >>

\* line 84: re.search("^(...)", line, re.IGNORECASE)
IsHeader(line) ==
  \E h \in 1..Len(HEADER_WORDS) :
     StartsWith(Lower(line), Lower(HEADER_WORDS[h]))

\* lines 65 and 113-114: a run of blanks becomes one blank
CollapseSpaces(s) ==
  LET f[k \in 0..Len(s)] ==
        IF k = 0 THEN ""
        ELSE f[k - 1] \o (IF IsSpace(Ch(s, k)) /\ k > 1 /\ IsSpace(Ch(s, k - 1))
                          THEN "" ELSE Ch(s, k))
  IN f[Len(s)]

SetMax(S) == CHOOSE x \in S : \A y \in S : y <= x
SetMin(S) == CHOOSE x \in S : \A y \in S : x <= y

\* \s*-\s*
IsDashGap(m) ==
  \E k \in 1..Len(m) :
     Ch(m, k) = "-" /\ \A j \in 1..Len(m) : j # k => IsSpace(Ch(m, j))

\* line 67: re.sub(r"^(.*)\s*-\s*\1$", r"\1", s, flags=re.IGNORECASE); the
\* greedy group takes the longest prefix that the text repeats after a dash
DropDuplicate(s) ==
  LET lens == { n \in 0..Len(s) :
                  /\ Len(s) - 2 * n >= 1
                  /\ IsDashGap(SubSeq(s, n + 1, Len(s) - n))
                  /\ Lower(SubSeq(s, 1, n)) = Lower(SubSeq(s, Len(s) - n + 1, Len(s))) }
  IN IF lens = {} THEN s ELSE SubSeq(s, 1, SetMax(lens))

\* lines 69-71: the first non-empty part between slashes, if there is one
FirstPart(s) ==
  LET cuts == {0} \cup { k \in 1..Len(s) : Ch(s, k) = "/" }
      Seg(a) == Strip(SubSeq(s, a + 1,
                             SetMin({ c \in cuts \cup {Len(s) + 1} : c > a }) - 1))
      starts == { a \in cuts : Seg(a) # "" }
  IN IF starts = {} THEN s ELSE Seg(SetMin(starts))

\* lines 64-72
squash_name(s) == StripChars(FirstPart(DropDuplicate(CollapseSpaces(s))), Punct)

\* " ".join(buf)
JoinSp(buf) ==
  LET f[k \in 0..Len(buf)] ==
        IF k = 0 THEN ""
        ELSE IF k = 1 THEN buf[1]
        ELSE f[k - 1] \o " " \o buf[k]
  IN f[Len(buf)]

\* "\n".join(lines)
JoinNl(ls) ==
  LET f[k \in 0..Len(ls)] ==
        IF k = 0 THEN ""
        ELSE IF k = 1 THEN ls[1]
        ELSE f[k - 1] \o "\n" \o ls[k]
  IN f[Len(ls)]

\* str.splitlines(), for texts whose line boundaries are "\n"
RECURSIVE SplitLines(_)
SplitLines(t) ==
  LET nl == { k \in 1..Len(t) : Ch(t, k) = "\n" }
  IN IF t = "" THEN <<>>
     ELSE IF nl = {} THEN <<t>>
     ELSE <<SubSeq(t, 1, SetMin(nl) - 1)>>
            \o SplitLines(SubSeq(t, SetMin(nl) + 1, Len(t)))

\* lines 37-41: the stripped, non-empty lines of one page; line 37 reads a
\* page without text as ""
PageLines(page) ==
  LET text == IF page = NoneVal THEN "" ELSE page
      raw == SplitLines(text)
  IN SelectSeq([k \in 1..Len(raw) |-> Strip(raw[k])], LAMBDA l : l # "")

\* lines 33-42: a document is [opens, pages]; the result is the exception
\* of line 34 (raised), or the lines of the pages in page order
read_pdf_lines(doc) ==
  LET f[k \in 0..Len(doc.pages)] ==
        IF k = 0 THEN <<>> ELSE f[k - 1] \o PageLines(doc.pages[k])
  IN IF ~doc.opens THEN [raised |-> TRUE, lines |-> <<>>]
     ELSE [raised |-> FALSE, lines |-> f[Len(doc.pages)]]

\* The three line tests of the walk.  For the lines of LinePool the answers
\* are computed once.
NoiseLines == { l \in LinePool : looks_like_noise(l) }
HeaderLines == { l \in LinePool : IsHeader(l) }
CityLines == { l \in LinePool : is_city_token(l) }

NoiseLine(l) == IF l \in LinePool THEN l \in NoiseLines ELSE looks_like_noise(l)
HeaderLine(l) == IF l \in LinePool THEN l \in HeaderLines ELSE IsHeader(l)
CityToken(l) == IF l \in LinePool THEN l \in CityLines ELSE is_city_token(l)

\* The names the walk squashes are joined lines of LinePool that are no city
\* tokens, and the cities it strips are lines of LinePool; for these the
\* results of squash_name and strip are computed once.
NameLines == LinePool \ CityLines
JoinedNames == { JoinSp(b) : b \in SeqsUpTo(NameLines, MaxLines) }
SquashedNames == [s \in JoinedNames |-> squash_name(s)]
SquashName(s) == IF s \in JoinedNames THEN SquashedNames[s] ELSE squash_name(s)
StrippedLines == [l \in LinePool |-> Strip(l)]
StripLine(l) == IF l \in LinePool THEN StrippedLines[l] ELSE Strip(l)

AfterRecord_KeepsBuffer(buf) == buf

\* lines 94 and 100: buf_name.clear()
AfterRecord(buf) == <<>>

Skip_Stay(st) == st

\* lines 83, 85 and 103: i += 1; continue
Skip(st) == [st EXCEPT !.i = @ + 1]

TwoLineName_FromBuffer(buf, line, next) == JoinSp(buf) \o " " \o next

\* line 97: f"{line} {lines[i+1]}"
TwoLineName(buf, line, next) == line \o " " \o next

Candidate(name, city) == [key |-> name \o ", " \o city, name |-> name, city |-> city]

\* lines 80-103: one iteration of the walk; st.i is the cursor i (lines[i] of
\* the code is ls[st.i + 1])
WalkStep(ls, st) ==
  LET line == ls[st.i + 1]
      n == Len(ls)
  IN IF NoiseLine(line) THEN Skip(st)
     ELSE IF HeaderLine(line) THEN Skip(st)
     ELSE IF ~CityToken(line)
     THEN LET buf == Append(st.buf_name, line)
          IN IF st.i + 1 < n /\ CityToken(ls[st.i + 2])
             THEN [i |-> st.i + 2, buf_name |-> AfterRecord(buf),
                   results |-> Append(st.results,
                                      Candidate(SquashName(JoinSp(buf)),
                                                StripLine(ls[st.i + 2])))]
             ELSE IF /\ st.i + 2 < n
                     /\ ~CityToken(ls[st.i + 2])
                     /\ CityToken(ls[st.i + 3])
             THEN [i |-> st.i + 3, buf_name |-> AfterRecord(buf),
                   results |-> Append(st.results,
                                      Candidate(SquashName(TwoLineName(buf, line, ls[st.i + 2])),
                                                StripLine(ls[st.i + 3])))]
             ELSE [i |-> st.i + 1, buf_name |-> buf, results |-> st.results]
     ELSE Skip(st)

\* line 29, ADDR_RE.  The pattern is a raw string with doubled backslashes,
\* so the regular expression reads: a backslash, "b", one of the words
\* below ("?" stands for the "." that follows a doubled backslash: any
\* character but a newline), a backslash, one or more "s", and one character
\* that is none of backslash, "n" and ","; letters match in either case.
Bs == "\\"

AddrWords ==
  << "ul\\?", "ulica", "street", "st\\?", "ave\\?", "avenue", "road", "rd\\?",
     "blvd\\?", "lane", "ln\\?", "pr\\?", "prospekt", "sh\\?", "szosa",
     "per\\?", "pereulok", "bulwar", "plac" >>

WordAt(text, p, w) ==
  /\ p + Len(w) - 1 <= Len(text)
  /\ \A k \in 1..Len(w) :
        IF Ch(w, k) = "?" THEN Ch(text, p + k - 1) # "\n"
        ELSE LowerCh(Ch(text, p + k - 1)) = LowerCh(Ch(w, k))

AddrLastCh(c) == c \notin {Bs, "n", "N", ","}

\* the length matched from q by: backslash, s+, one more character (0: none)
AddrTailLen(text, q) ==
  IF q > Len(text) \/ Ch(text, q) # Bs THEN 0
  ELSE LET m == SetMax({ k \in 0..(Len(text) - q) :
                           \A j \in 1..k : LowerCh(Ch(text, q + j)) = "s" })
       IN IF m >= 1 /\ q + m + 1 <= Len(text) /\ AddrLastCh(Ch(text, q + m + 1))
          THEN m + 2
          ELSE IF m >= 2 THEN m + 1
          ELSE 0

\* the length of the match of ADDR_RE that starts at p (0: none)
AddrMatchLen(text, p) ==
  IF p + 1 > Len(text) \/ Ch(text, p) # Bs \/ LowerCh(Ch(text, p + 1)) # "b"
  THEN 0
  ELSE LET ok == { w \in 1..Len(AddrWords) :
                     /\ WordAt(text, p + 2, AddrWords[w])
                     /\ AddrTailLen(text, p + 2 + Len(AddrWords[w])) > 0 }
       IN IF ok = {} THEN 0
          ELSE 2 + Len(AddrWords[SetMin(ok)])
                 + AddrTailLen(text, p + 2 + Len(AddrWords[SetMin(ok)]))

\* lines 107-109: ADDR_RE.finditer(text), each match stripped
RECURSIVE AddrFindAll(_, _)
AddrFindAll(text, p) ==
  IF p > Len(text) THEN <<>>
  ELSE IF AddrMatchLen(text, p) > 0
  THEN <<Strip(SubSeq(text, p, p + AddrMatchLen(text, p) - 1))>>
         \o AddrFindAll(text, p + AddrMatchLen(text, p))
  ELSE AddrFindAll(text, p + 1)

\* lines 112-115
Normalize(r) ==
  [key |-> StripChars(CollapseSpaces(r.key), Punct),
   name |-> StripChars(CollapseSpaces(r.name), Punct),
   city |-> StripChars(r.city, Punct)]

\* lines 105-116: the fallback and the final pass
Finish(ls, res) ==
  LET found == AddrFindAll(JoinNl(ls), 1)
      all == IF Len(res) = 0
             THEN [k \in 1..Len(found) |->
                     [key |-> found[k], name |-> found[k], city |-> ""]]
             ELSE res
  IN [k \in 1..Len(all) |-> Normalize(all[k])]

RECURSIVE WalkFrom(_, _)
WalkFrom(ls, st) == IF st.i < Len(ls) THEN WalkFrom(ls, WalkStep(ls, st)) ELSE st

WalkStart == [i |-> 0, buf_name |-> <<>>, results |-> <<>>]

\* lines 75-116
extract_name_city(ls) == Finish(ls, WalkFrom(ls, WalkStart).results)

\* --------------------------------------------------------- reference table

\* lines 18-26, without the Cyrillic names
ADDRESS_CANDIDATES ==
  << "address", "addr", "street", "stop address", "location",
     "address1", "address_line", "address_line1", "addr1" >>
NAME_CANDIDATES ==
  << "name", "company", "firma", "client", "recipient", "odbiorca",
     "shop", "customer", "nazwa", "nazwa odbiorcy" >>
CITY_CANDIDATES == << "city", "miasto" >>

\* Column names: an exact address name, a name that contains an address
\* candidate, an exact city name, a name that contains a city candidate and a
\* name candidate, and a name that matches nothing.
ColPool == {"Address", "Addr 2", "City", "City name", "note"}

\* line 135: re.sub(r"[^a-z0-9]", "", str(name).lower())
NormCh(c) == IF IsLower(LowerCh(c)) \/ IsDigit(c) THEN LowerCh(c) ELSE ""

_norm_name(name) == MapStr(name, NormCh)

\* pandas reads a column as numbers when every cell is a number, and as
\* dtype object otherwise (line 151)
IsNumberText(s) == Len(s) > 0 /\ \A k \in 1..Len(s) : IsDigit(Ch(s, k))

IsObjectCol(df, c) == \E r \in 1..Len(df.rows) : ~IsNumberText(df.rows[r][c])

SumLen(df, c) ==
  LET f[k \in 0..Len(df.rows)] ==
        IF k = 0 THEN 0 ELSE f[k - 1] + Len(df.rows[k][c])
  IN f[Len(df.rows)]

LongText_Any(df, c) == Len(df.rows) > 0

\* line 153: not s.empty and s.str.len().mean() > 10
LongText(df, c) == Len(df.rows) > 0 /\ SumLen(df, c) > 10 * Len(df.rows)

FirstWhere(cols, P(_)) ==
  IF \E p \in 1..Len(cols) : P(cols[p])
  THEN cols[CHOOSE p \in 1..Len(cols) :
              P(cols[p]) /\ \A q \in 1..(p - 1) : ~P(cols[q])]
  ELSE NoneVal

\* lines 140-141: norm_map and cand_norms.  For the candidate names and
\* the column names of ColPool the normalized names are computed once.
KnownNames ==
  ColPool \cup Range(ADDRESS_CANDIDATES) \cup Range(NAME_CANDIDATES)
          \cup Range(CITY_CANDIDATES)
NormNames == [x \in KnownNames |-> _norm_name(x)]
NormName(x) == IF x \in KnownNames THEN NormNames[x] ELSE _norm_name(x)

ExactMatch(c, candidates) ==
  \E x \in 1..Len(candidates) : NormName(c) = NormName(candidates[x])

SubstringMatch(c, candidates) ==
  \E x \in 1..Len(candidates) :
     Contains(NormName(c), NormName(candidates[x]))

detect_col_SubstringFirst(df, candidates) ==
  LET exact == FirstWhere(df.columns, LAMBDA c : ExactMatch(c, candidates))
      sub == FirstWhere(df.columns, LAMBDA c : SubstringMatch(c, candidates))
      heur == FirstWhere(df.columns,
                         LAMBDA c : IsObjectCol(df, c) /\ LongText(df, c))
  IN IF sub # NoneVal THEN sub
     ELSE IF exact # NoneVal THEN exact
     ELSE heur

\* lines 138-155
detect_col(df, candidates) ==
  LET exact == FirstWhere(df.columns, LAMBDA c : ExactMatch(c, candidates))
      sub == FirstWhere(df.columns, LAMBDA c : SubstringMatch(c, candidates))
      heur == FirstWhere(df.columns,
                         LAMBDA c : IsObjectCol(df, c) /\ LongText(df, c))
  IN IF exact # NoneVal THEN exact
     ELSE IF sub # NoneVal THEN sub
     ELSE heur

\* Python's "a or b" on column names
PyOr(a, b) == IF a # NoneVal /\ a # "" THEN a ELSE b

\* ----------------------------------------------------------------- matcher

city_match(a, b) == city_score[<<a, b>>]

name_match(a, b) == name_score[<<a, b>>]

Index(df) == [k \in 1..Len(df.rows) |-> k]

\* lines 184-188: candidates_idx
CandidatesIdx(item, df, ccol) ==
  IF ccol # NoneVal /\ item.city # ""
  THEN LET city_scores == [r \in 1..Len(df.rows) |->
                             city_match(item.city, df.rows[r][ccol])]
       IN SelectSeq(Index(df), LAMBDA r : city_scores[r] >= CITY_FUZZ * 10)
  ELSE Index(df)

Narrowed_NoFallback(item, df, ccol) == CandidatesIdx(item, df, ccol)

\* lines 185-195: narrowed, as the index labels of the working set (lines
\* 194-195 replace an empty frame by ref_df, whose labels are the same)
Narrowed(item, df, ccol) ==
  IF ccol # NoneVal /\ item.city # ""
  THEN IF Len(CandidatesIdx(item, df, ccol)) > 0
       THEN CandidatesIdx(item, df, ccol)
       ELSE Index(df)
  ELSE Index(df)

\* rapidfuzz process.extractOne(key, choices, scorer=name_match): None for
\* no choices (NoBest, found = FALSE), else (choice, score, position) of the
\* first best choice.
NoBest == [found |-> FALSE, str |-> "", score |-> 0, local_idx |-> 0]

ExtractOne_LastOnTie(key, choices) ==
  IF Len(choices) = 0 THEN NoBest
  ELSE LET sc == [p \in 1..Len(choices) |-> name_match(key, choices[p])]
           p0 == CHOOSE p \in 1..Len(choices) :
                   /\ \A q \in 1..Len(choices) : sc[q] <= sc[p]
                   /\ \A q \in (p + 1)..Len(choices) : sc[q] < sc[p]
       IN [found |-> TRUE, str |-> choices[p0], score |-> sc[p0],
           local_idx |-> p0]

ExtractOne(key, choices) ==
  IF Len(choices) = 0 THEN NoBest
  ELSE LET sc == [p \in 1..Len(choices) |-> name_match(key, choices[p])]
           p0 == CHOOSE p \in 1..Len(choices) :
                   /\ \A q \in 1..Len(choices) : sc[q] <= sc[p]
                   /\ \A q \in 1..(p - 1) : sc[q] < sc[p]
       IN [found |-> TRUE, str |-> choices[p0], score |-> sc[p0],
           local_idx |-> p0]

Threshold_IgnoresNarrowing(item, ccol, candidates_idx) ==
  IF ccol # NoneVal /\ item.city # "" THEN NAME_FUZZ_WITH_CITY ELSE NAME_FUZZ

\* line 207: the dynamic threshold
Threshold(item, ccol, candidates_idx) ==
  IF ccol # NoneVal /\ item.city # "" /\ Len(candidates_idx) > 0
  THEN NAME_FUZZ_WITH_CITY
  ELSE NAME_FUZZ

Accepted_Strict(score, thr) == score > thr * 10

\* line 208
Accepted(score, thr) == score >= thr * 10

\* int(score)
IntOf(score) == score \div 10

\* lines 209-217: the output row, the reference row updated with the
\* derived fields (a derived field replaces a column of the same name)
DerivedCols == {"order", "source_key", "name_pdf", "city_pdf", "match", "score"}

OrderOf_ZeroBased(k) == k - 1

\* line 181: enumerate(keys_from_pdf, start=1)
OrderOf(k) == k

OutputRow(k, item, refrow, best) ==
  LET derived == [order |-> OrderOf(k), source_key |-> item.key,
                  name_pdf |-> item.name, city_pdf |-> item.city,
                  match |-> best.str, score |-> IntOf(best.score)]
  IN [c \in (DOMAIN refrow) \cup DerivedCols |->
        IF c \in DerivedCols THEN derived[c] ELSE refrow[c]]

\* lines 181-222: one iteration of the loop, for the k-th candidate
Iteration(k, item, df, rcol, ccol) ==
  LET candidates_idx == CandidatesIdx(item, df, ccol)
      narrowed == Narrowed(item, df, ccol)
      narrowed_vals == [p \in 1..Len(narrowed) |-> df.rows[narrowed[p]][rcol]]
      best == ExtractOne(item.key, narrowed_vals)
      thr == Threshold(item, ccol, candidates_idx)
  IN [candidates_idx |-> candidates_idx, narrowed |-> narrowed,
      best |-> best, thr |-> thr,
      global_idx |-> IF best.found THEN narrowed[best.local_idx] ELSE 0]

\* lines 199-222: what the iteration appends to rows
RowsAfter(rs, k, item, df, it) ==
  IF it.best.found /\ Accepted(it.best.score, it.thr)
  THEN Append(rs, OutputRow(k, item, df.rows[it.global_idx], it.best))
  ELSE rs

NotFoundAfter_NoElse(nf, item, it) ==
  IF it.best.found /\ ~Accepted(it.best.score, it.thr)
  THEN Append(nf, item.key)
  ELSE nf

\* lines 199-222: what the iteration appends to not_found
NotFoundAfter(nf, item, it) ==
  IF it.best.found
  THEN IF Accepted(it.best.score, it.thr) THEN nf ELSE Append(nf, item.key)
  ELSE Append(nf, item.key)

\* line 204
HintsAfter(hs, item, it) ==
  IF it.best.found
  THEN Append(hs, <<item.key, it.best.str, IntOf(it.best.score)>>)
  ELSE hs

\* lines 173-224: the whole loop, from the state after k candidates
RECURSIVE MatchFrom(_, _, _, _, _, _)
MatchFrom(k, ks, df, rcol, ccol, acc) ==
  IF k >= Len(ks) THEN acc
  ELSE LET item == ks[k + 1]
           it == Iteration(k + 1, item, df, rcol, ccol)
       IN MatchFrom(k + 1, ks, df, rcol, ccol,
                    [rows |-> RowsAfter(acc.rows, k + 1, item, df, it),
                     not_found |-> NotFoundAfter(acc.not_found, item, it),
                     hints |-> HintsAfter(acc.hints, item, it)])

match_generic(ks, df, rcol, ccol) ==
  MatchFrom(0, ks, df, rcol, ccol,
            [rows |-> <<>>, not_found |-> <<>>, hints |-> <<>>])

\* --------------------------------------------------------------- main flow

DerivedSeq == <<"order", "source_key", "name_pdf", "city_pdf", "match", "score">>

\* line 224, pd.DataFrame(rows): the columns of the output frame, those of
\* the reference row followed by the derived fields it does not have; no
\* column at all when there is no row
FrameColumns(df, rs) ==
  IF Len(rs) = 0 THEN <<>>
  ELSE df.columns \o SelectSeq(DerivedSeq, LAMBDA c : c \notin Range(df.columns))

\* lines 253-258: the new name of an output column (a later entry of
\* rename_map replaces an earlier one for the same column)
RenameOf(c, cols, ncol, acol, ccol) ==
  IF ccol # NoneVal /\ c = ccol /\ c \in Range(cols) THEN "city_ref"
  ELSE IF acol # NoneVal /\ c = acol /\ c \in Range(cols) THEN "address_ref"
  ELSE IF ncol # NoneVal /\ c = ncol /\ c \in Range(cols) THEN "name_ref"
  ELSE c

\* lines 265-269
Preferred ==
  << "order", "source_key", "name_pdf", "city_pdf", "name_ref",
     "address_ref", "city_ref", "match", "score", "lat", "lon" >>

\* lines 252-271: the text of the route file: the header, and each row's
\* cells in header order
CsvContent(df, rs, ncol, acol, ccol) ==
  LET cols == FrameColumns(df, rs)
      renamed == [p \in 1..Len(cols) |-> RenameOf(cols[p], cols, ncol, acol, ccol)]
      header == SelectSeq(Preferred, LAMBDA c : c \in Range(renamed))
                  \o SelectSeq(renamed, LAMBDA c : c \notin Range(Preferred))
      SrcOf(c) == cols[CHOOSE p \in 1..Len(cols) : renamed[p] = c]
  IN [header |-> header,
      data |-> [r \in 1..Len(rs) |->
                  [h \in 1..Len(header) |-> rs[r][SrcOf(header[h])]]]]

\* line 261: strftime("%Y%m%d_%H%M%S") keeps whole seconds; the clock
\* counts half seconds
Strftime(t) == t \div 2

\* lines 261-263
OutCsvPath(output_dir, t) == [dir |-> output_dir, stamp |-> Strftime(t)]

WriteFile_SkipEmpty(fs, path, content) ==
  IF Len(content.data) = 0 THEN fs
  ELSE [q \in (DOMAIN fs) \cup {path} |-> IF q = path THEN content ELSE fs[q]]

\* line 271: to_csv creates the file or replaces its content
WriteFile(fs, path, content) ==
  [q \in (DOMAIN fs) \cup {path} |-> IF q = path THEN content ELSE fs[q]]

HintHeader == "Possible candidates:"

\* lines 275-278
Tips(hs, nf) == SelectSeq(hs, LAMBDA h : h[1] \in Range(nf))

\* lines 280-285
Report(rs, ks, nf, hs, path) ==
  [found_count |-> Len(rs),
   total_count |-> Len(ks),
   not_found |-> nf \o (IF Len(Tips(hs, nf)) > 0
                        THEN <<HintHeader>> \o Tips(hs, nf) ELSE <<>>),
   output_file |-> path]

OutputDir == "output"

\* lines 239-243
DetectCols(df) ==
  [addr |-> detect_col(df, ADDRESS_CANDIDATES),
   name |-> detect_col(df, NAME_CANDIDATES),
   city |-> detect_col(df, CITY_CANDIDATES),
   used |-> PyOr(detect_col(df, ADDRESS_CANDIDATES),
                 detect_col(df, NAME_CANDIDATES))]

\* ------------------------------------------------- one run of process_route
\* The run from the call of match_generic on (line 250), one loop iteration
\* per step.

ColumnChoices == { <<"address">>, <<"address", "city">> }

RowsOver(cols) == { [c \in Range(cols) |-> r[c]] : r \in RowPool }

Tables ==
  UNION { { [columns |-> cols, rows |-> rs] :
              rs \in SeqsUpTo(RowsOver(cols), MaxRows) } : cols \in ColumnChoices }

\* lines 239-243 for each table of Tables (computed once per table)
DetectedTables == [t \in Tables |-> DetectCols(t)]

CellsOf(df, c) ==
  IF c = NoneVal THEN {} ELSE { df.rows[r][c] : r \in 1..Len(df.rows) }

\* The scores of the pairs (key, cell of the match column) that occur.
ScoreFunctions(ks, df, rcol) ==
  LET pairs == { <<ks[k].key, v>> : k \in 1..Len(ks), v \in CellsOf(df, rcol) }
  IN { f \in [pairs -> {739, 740, 799, 800}] :
         \A pr \in pairs : f[pr] \in NameScores(pr[1]) }

NoLocals ==
  [candidates_idx |-> <<>>, narrowed |-> <<>>, best |-> NoBest,
   thr |-> 0, global_idx |-> 0]

\* The two invocations the web service makes, both with OUTPUT_DIR.
Runs == {1, 2}

NoPath == [dir |-> "", stamp |-> -1]
NoReport ==
  [found_count |-> -1, total_count |-> -1, not_found |-> <<>>,
   output_file |-> NoPath]
NoError == [type |-> "", columns |-> <<>>]
NoMatch == [rows |-> <<>>, not_found |-> <<>>, hints |-> <<>>]
NoTable == [columns |-> <<>>, rows |-> <<>>]
NoCols == [addr |-> NoneVal, name |-> NoneVal, city |-> NoneVal, used |-> NoneVal]

\* no manifest document yet
NoDoc == [opens |-> TRUE, pages |-> <<>>]

IdleRun ==
  [pc |-> "idle", doc |-> NoDoc, lines |-> <<>>, ref_df |-> NoTable, keys |-> <<>>,
   cols |-> NoCols, out |-> NoMatch, path |-> NoPath, report |-> NoReport,
   error |-> NoError]

\* no invocation has been made
RunIdle == run = [p \in Runs |-> IdleRun]

\* extract_name_city is not running
ParseIdle ==
  /\ lines = <<>>
  /\ i = 0
  /\ buf_name = <<>>
  /\ results = <<>>
  /\ ppc = "idle"

\* process_route is not running
MatchIdle ==
  /\ keys = <<>>
  /\ ref_df = [columns |-> <<>>, rows |-> <<>>]
  /\ addr_col = NoneVal
  /\ name_col = NoneVal
  /\ used_col = NoneVal
  /\ city_col = NoneVal
  /\ name_score = <<>>
  /\ city_score = <<>>
  /\ idx = 0
  /\ rows = <<>>
  /\ not_found = <<>>
  /\ hints = <<>>
  /\ loc = NoLocals
  /\ pc = "idle"
  /\ report = NoneVal
  /\ files = <<>>
  /\ now = 0

Init ==
  /\ ParseIdle
  /\ RunIdle
  /\ keys \in SeqsUpTo(CandPool, MaxCands)
  /\ ref_df \in Tables
  /\ addr_col = DetectedTables[ref_df].addr
  /\ name_col = DetectedTables[ref_df].name
  /\ city_col = DetectedTables[ref_df].city
  /\ used_col = DetectedTables[ref_df].used
  /\ used_col # NoneVal
  /\ name_score \in ScoreFunctions(keys, ref_df, used_col)
  /\ city_score \in [ { <<c, v>> : c \in { keys[k].city : k \in 1..Len(keys) } \ {""},
                                 v \in CellsOf(ref_df, city_col) }
                      -> CityScores ]
  /\ idx = 0
  /\ rows = <<>>
  /\ not_found = <<>>
  /\ hints = <<>>
  /\ loc = NoLocals
  /\ pc = "match"
  /\ report = NoneVal
  /\ files = <<>>
  /\ now = 0

\* lines 181-222: the loop body for candidate idx + 1
MatchStep ==
  /\ pc = "match"
  /\ idx < Len(keys)
  /\ LET item == keys[idx + 1]
         it == Iteration(idx + 1, item, ref_df, used_col, city_col)
     IN /\ loc' = it
        /\ rows' = RowsAfter(rows, idx + 1, item, ref_df, it)
        /\ not_found' = NotFoundAfter(not_found, item, it)
        /\ hints' = HintsAfter(hints, item, it)
  /\ idx' = idx + 1
  /\ UNCHANGED <<keys, ref_df, addr_col, name_col, used_col, city_col,
                 name_score, city_score, pc, report, files, now>>
  /\ UNCHANGED <<parseVars, run>>

\* lines 252-271: rename, choose the path, write the file
Save ==
  /\ pc = "match"
  /\ idx = Len(keys)
  /\ files' = WriteFile(files, OutCsvPath(OutputDir, now),
                        CsvContent(ref_df, rows, name_col, addr_col, city_col))
  /\ pc' = "saved"
  /\ UNCHANGED <<keys, ref_df, addr_col, name_col, used_col, city_col,
                 name_score, city_score, idx, rows, not_found, hints, loc,
                 report, now>>
  /\ UNCHANGED <<parseVars, run>>

\* lines 273-285
Return ==
  /\ pc = "saved"
  /\ report' = Report(rows, keys, not_found, hints, OutCsvPath(OutputDir, now))
  /\ pc' = "done"
  /\ UNCHANGED <<keys, ref_df, addr_col, name_col, used_col, city_col,
                 name_score, city_score, idx, rows, not_found, hints, loc,
                 files, now>>
  /\ UNCHANGED <<parseVars, run>>

Next == MatchStep \/ Save \/ Return

Spec == Init /\ [][Next]_vars

\* ------------------------------------------------ extract_name_city alone
\* One loop iteration per step, then the fallback and the final pass.

InitParse ==
  /\ MatchIdle
  /\ RunIdle
  /\ lines \in SeqsUpTo(LinePool, MaxLines)
  /\ i = 0
  /\ buf_name = <<>>
  /\ results = <<>>
  /\ ppc = "walk"

\* lines 80-103
Walk ==
  /\ ppc = "walk"
  /\ i < Len(lines)
  /\ LET st == WalkStep(lines, [i |-> i, buf_name |-> buf_name, results |-> results])
     IN /\ i' = st.i
        /\ buf_name' = st.buf_name
        /\ results' = st.results
  /\ UNCHANGED <<lines, ppc>>
  /\ UNCHANGED <<matchVars, run>>

\* lines 105-116
WalkEnd ==
  /\ ppc = "walk"
  /\ i >= Len(lines)
  /\ results' = Finish(lines, results)
  /\ ppc' = "done"
  /\ UNCHANGED <<lines, i, buf_name>>
  /\ UNCHANGED <<matchVars, run>>

NextParse == Walk \/ WalkEnd

SpecParse == InitParse /\ [][NextParse]_vars

\* The interpreter keeps running the loop while its condition holds.
SpecParseLive == SpecParse /\ WF_vars(Walk)

\* ------------------------------------------- process_route, called twice
\* The web service (web_main.py, process) calls process_route inside its
\* request handler, which does not yield while the call runs: an invocation
\* starts when no other is running.  The clock moves at any time.  Each
\* invocation is cut at the reading of the clock and at the writing of the
\* file.

MaxClock == 3

\* The lines read_pdf_lines returns: none (no text layer), or one record.
ManifestPool == { <<>>, <<"Acme Oy", "TURKU">> }

\* The manifest documents: one that PdfReader cannot open, one whose only
\* page has no text (extract_text returns None), one with a record on its
\* page, and one with a page without text before the page with the record.
DocPool ==
  { [opens |-> FALSE, pages |-> <<>>],
    [opens |-> TRUE, pages |-> <<NoneVal>>],
    [opens |-> TRUE, pages |-> <<" Acme Oy\n\n  TURKU \n">>],
    [opens |-> TRUE, pages |-> <<NoneVal, "Acme Oy\nTURKU">>] }

\* line 34: PdfReader(pdf_path) raises when it cannot open the document;
\* read_pdf_lines has no handler, and neither has process_route
ReadError == [type |-> "PdfReadError", columns |-> <<>>]

ReadPdfs == [d \in DocPool |-> read_pdf_lines(d)]

\* A table with a match column and a city column, a table whose column
\* names match no candidate name and whose text column is short, a table
\* whose column names match no candidate name and whose text column is long,
\* and a table with a match column and a column named like a derived field.
RefPool ==
  { [columns |-> <<"address", "city">>,
     rows |-> << [address |-> "Acme Oy", city |-> "Turku"] >>],
    [columns |-> <<"id", "tag">>,
     rows |-> << [id |-> "7", tag |-> "ab"] >>],
    [columns |-> <<"id", "note">>,
     rows |-> << [id |-> "7", note |-> "Main road 12"] >>],
    [columns |-> <<"address", "match">>,
     rows |-> << [address |-> "Acme Oy", match |-> "old"] >>] }

\* lines 244-248: the ValueError, with list(ref_df.columns) in its message
ColumnError(df) == [type |-> "ValueError", columns |-> df.columns]

\* What lines 232-243 compute from each manifest and each table (computed
\* once per input).
ParsedManifests == [l \in ManifestPool |-> extract_name_city(l)]
DetectedRefs == [t \in RefPool |-> DetectCols(t)]

RouteKeys == UNION { Range(ParsedManifests[l]) : l \in ManifestPool }

RoutePairs(col) ==
  UNION { CellsOf(t, DetectedRefs[t][col]) : t \in RefPool }

InitRoute ==
  /\ ParseIdle
  /\ RunIdle
  /\ keys = <<>>
  /\ ref_df = NoTable
  /\ addr_col = NoneVal
  /\ name_col = NoneVal
  /\ used_col = NoneVal
  /\ city_col = NoneVal
  /\ name_score \in [ { <<k.key, v>> : k \in RouteKeys, v \in RoutePairs("used") }
                      -> {739, 740, 800} ]
  /\ city_score \in [ { <<k.city, v>> : k \in RouteKeys, v \in RoutePairs("city") }
                      -> CityScores ]
  /\ idx = 0
  /\ rows = <<>>
  /\ not_found = <<>>
  /\ hints = <<>>
  /\ loc = NoLocals
  /\ pc = "idle"
  /\ report = NoneVal
  /\ files = <<>>
  /\ now = 0

routeFrame == <<keys, ref_df, addr_col, name_col, used_col, city_col,
                name_score, city_score, idx, rows, not_found, hints, loc,
                pc, report, parseVars>>

\* lines 229-250: read the manifest and the table, detect the columns, raise
\* or match
Start(p) ==
  /\ run[p].pc = "idle"
  /\ \A q \in Runs \ {p} : run[q].pc \in {"idle", "done", "raised"}
  /\ \E d \in DocPool, df \in RefPool :
        LET rd == ReadPdfs[d]
            ls == rd.lines
            ks == IF rd.raised THEN <<>> ELSE ParsedManifests[ls]
            cols == DetectedRefs[df]
        IN run' = [run EXCEPT ![p] =
                     IF rd.raised
                     THEN [IdleRun EXCEPT !.pc = "raised", !.doc = d,
                                          !.error = ReadError]
                     ELSE IF cols.used = NoneVal
                     THEN [IdleRun EXCEPT !.pc = "raised", !.doc = d,
                                          !.lines = ls,
                                          !.ref_df = df, !.keys = ks,
                                          !.cols = cols,
                                          !.error = ColumnError(df)]
                     ELSE [IdleRun EXCEPT !.pc = "matched", !.doc = d,
                                          !.lines = ls,
                                          !.ref_df = df, !.keys = ks,
                                          !.cols = cols,
                                          !.out = match_generic(ks, df, cols.used,
                                                                cols.city)]]
  /\ UNCHANGED <<routeFrame, files, now>>

\* lines 261-263: datetime.now() and the path
Stamp(p) ==
  /\ run[p].pc = "matched"
  /\ run' = [run EXCEPT ![p].pc = "stamped",
                        ![p].path = OutCsvPath(OutputDir, now)]
  /\ UNCHANGED <<routeFrame, files, now>>

\* lines 265-271: to_csv
WriteCsv(p) ==
  /\ run[p].pc = "stamped"
  /\ files' = WriteFile(files, run[p].path,
                        CsvContent(run[p].ref_df, run[p].out.rows,
                                   run[p].cols.name, run[p].cols.addr,
                                   run[p].cols.city))
  /\ run' = [run EXCEPT ![p].pc = "written"]
  /\ UNCHANGED <<routeFrame, now>>

\* lines 273-285
ReturnReport(p) ==
  /\ run[p].pc = "written"
  /\ run' = [run EXCEPT ![p].pc = "done",
                        ![p].report = Report(run[p].out.rows, run[p].keys,
                                             run[p].out.not_found,
                                             run[p].out.hints, run[p].path)]
  /\ UNCHANGED <<routeFrame, files, now>>

\* the clock advances by half a second
Tick ==
  /\ now < MaxClock
  /\ now' = now + 1
  /\ UNCHANGED <<routeFrame, files, run>>

NextRoute ==
  \/ \E p \in Runs : Start(p)
  \/ \E p \in Runs : Stamp(p)
  \/ \E p \in Runs : WriteCsv(p)
  \/ \E p \in Runs : ReturnReport(p)
  \/ Tick

SpecRoute == InitRoute /\ [][NextRoute]_vars

\* ------------------------------------- process_route, the column choice

MaxCols == 2

\* Cells: a number, a short text and a text longer than 10 characters.
CellPool == {"7", "Turku", "Long street 12"}

\* read_csv_robust gives distinct column names
ColSeqs ==
  { cs \in SeqsUpTo(ColPool, MaxCols) :
      /\ Len(cs) >= 1
      /\ \A p, q \in 1..Len(cs) : cs[p] = cs[q] => p = q }

\* Tables with no row or one row.
DetectTables ==
  UNION { { [columns |-> cs, rows |-> <<>>] }
            \cup { [columns |-> cs, rows |-> <<r>>] : r \in [Range(cs) -> CellPool] }
          : cs \in ColSeqs }

InitDetect ==
  /\ ParseIdle
  /\ RunIdle
  /\ keys = <<>>
  /\ ref_df \in DetectTables
  /\ addr_col = NoneVal
  /\ name_col = NoneVal
  /\ used_col = NoneVal
  /\ city_col = NoneVal
  /\ name_score = <<>>
  /\ city_score = <<>>
  /\ idx = 0
  /\ rows = <<>>
  /\ not_found = <<>>
  /\ hints = <<>>
  /\ loc = NoLocals
  /\ pc = "detect_addr"
  /\ report = NoneVal
  /\ files = <<>>
  /\ now = 0

detectFrame == <<keys, ref_df, name_score, city_score, idx, rows, not_found,
                 hints, loc, report, files, now, parseVars, run>>

\* line 239
DetectAddr ==
  /\ pc = "detect_addr"
  /\ addr_col' = detect_col(ref_df, ADDRESS_CANDIDATES)
  /\ pc' = "detect_name"
  /\ UNCHANGED <<name_col, city_col, used_col, detectFrame>>

\* line 240
DetectName ==
  /\ pc = "detect_name"
  /\ name_col' = detect_col(ref_df, NAME_CANDIDATES)
  /\ pc' = "detect_city"
  /\ UNCHANGED <<addr_col, city_col, used_col, detectFrame>>

\* line 241
DetectCity ==
  /\ pc = "detect_city"
  /\ city_col' = detect_col(ref_df, CITY_CANDIDATES)
  /\ pc' = "choose"
  /\ UNCHANGED <<addr_col, name_col, used_col, detectFrame>>

\* lines 243-250: used_col, then the ValueError or the call of match_generic
ChooseUsed ==
  /\ pc = "choose"
  /\ used_col' = PyOr(addr_col, name_col)
  /\ pc' = IF used_col' \in {NoneVal, ""} THEN "raised" ELSE "matching"
  /\ UNCHANGED <<addr_col, name_col, city_col, detectFrame>>

NextDetect == DetectAddr \/ DetectName \/ DetectCity \/ ChooseUsed

SpecDetect == InitDetect /\ [][NextDetect]_vars

\* ------------------------------------------------------------------ claims

LastRow == rows[Len(rows)]

\* The last loop iteration appended an output row.
Produced == Len(rows) > 0 /\ LastRow["order"] = idx

\* The keys of the processed candidates that have no output row, in
\* candidate order.
UnmatchedKeys ==
  LET orders == { rows[r]["order"] : r \in 1..Len(rows) }
      pos == SelectSeq([p \in 1..idx |-> p], LAMBDA p : p \notin orders)
  IN [q \in 1..Len(pos) |-> keys[pos[q]].key]

\* C1: every processed candidate is in exactly one of the output rows and
\* the base unresolved list, so when process_route has returned,
\* found_count + len(base not_found) = total_count = the number of parsed
\* candidates, and the loop has gone through all of them.
C1_Partition ==
  /\ Len(rows) + Len(not_found) = idx
  /\ not_found = UnmatchedKeys
  /\ \A r1, r2 \in 1..Len(rows) : rows[r1]["order"] = rows[r2]["order"] => r1 = r2
  /\ pc = "done" =>
       /\ idx = Len(keys)
       /\ report.total_count = Len(keys)
       /\ report.found_count + Len(not_found) = report.total_count
       /\ SubSeq(report.not_found, 1, Len(not_found)) = not_found

C1_Witness ==
  /\ pc = "done"
  /\ report.total_count = 2
  /\ report.found_count = 1
  /\ not_found = <<keys[1].key>>

\* C2: the last candidate processed has an output row exactly when it has a
\* best score and that score is >= its threshold (inclusive); the score
\* written in the row is then >= the threshold, and otherwise the key is the
\* last entry of the unresolved list.
C2_ThresholdInclusive ==
  idx > 0 =>
    /\ Produced <=> (loc.best.found /\ loc.best.score >= loc.thr * 10)
    /\ Produced => LastRow["score"] >= loc.thr
    /\ ~Produced => /\ Len(not_found) > 0
                    /\ not_found[Len(not_found)] = keys[idx].key

C2_Witness ==
  /\ idx > 0
  /\ loc.best.found
  /\ loc.best.score = loc.thr * 10
  /\ Produced
  /\ LastRow["score"] = loc.thr

\* The reference rows whose city scores >= CITY_FUZZ against the city of
\* the last candidate processed.
CityHits ==
  { r \in 1..Len(ref_df.rows) :
      city_score[<<keys[idx].city, ref_df.rows[r][city_col]>>] >= CITY_FUZZ * 10 }

\* C3: the threshold of the last candidate processed is NAME_FUZZ_WITH_CITY
\* exactly when a city column is configured, the candidate has a city and
\* some reference row passes the city test; otherwise it is NAME_FUZZ.
C3_DynamicThreshold ==
  idx > 0 =>
    IF city_col # NoneVal /\ keys[idx].city # "" /\ CityHits # {}
    THEN loc.thr = NAME_FUZZ_WITH_CITY
    ELSE loc.thr = NAME_FUZZ

C3_Witness ==
  /\ idx > 0
  /\ city_col # NoneVal
  /\ keys[idx].city # ""
  /\ Len(ref_df.rows) > 0
  /\ CityHits = {}
  /\ loc.thr = NAME_FUZZ

\* C4: for a candidate with a city and a configured city column, the rows
\* scored are exactly the rows passing the city test when there is one, and
\* the whole table when there is none; a non-empty table then still gives a
\* best row, and the matched row is the row of the working set the best
\* match points at.
C4_NarrowOrFallback ==
  (idx > 0 /\ city_col # NoneVal /\ keys[idx].city # "") =>
    /\ Range(loc.narrowed) = IF CityHits # {} THEN CityHits
                             ELSE 1..Len(ref_df.rows)
    /\ \A p, q \in 1..Len(loc.narrowed) :
          p < q => loc.narrowed[p] < loc.narrowed[q]
    /\ Len(ref_df.rows) > 0 => loc.best.found
    /\ loc.best.found =>
         /\ loc.global_idx \in Range(loc.narrowed)
         /\ ref_df.rows[loc.global_idx][used_col] = loc.best.str
    /\ Produced =>
         \A c \in Range(ref_df.columns) :
            LastRow[c] = ref_df.rows[loc.global_idx][c]

C4_Witness ==
  /\ idx > 0
  /\ city_col # NoneVal
  /\ keys[idx].city # ""
  /\ Len(ref_df.rows) = 2
  /\ CityHits = {}
  /\ loc.narrowed = <<1, 2>>
  /\ Produced

\* C5: a row appended by the loop carries the 1-based position of the
\* candidate being processed, whether or not earlier candidates were
\* resolved; every row's source fields are those of the candidate at its
\* order; the rows are in strictly increasing order.
C5_OrderIsPosition ==
  /\ [](/\ \A r \in 1..Len(rows) :
            /\ rows[r]["order"] \in 1..idx
            /\ rows[r]["source_key"] = keys[rows[r]["order"]].key
            /\ rows[r]["name_pdf"] = keys[rows[r]["order"]].name
            /\ rows[r]["city_pdf"] = keys[rows[r]["order"]].city
         /\ \A r1, r2 \in 1..Len(rows) :
              r1 < r2 => rows[r1]["order"] < rows[r2]["order"])
  /\ [][Len(rows') = Len(rows) + 1 => rows'[Len(rows')]["order"] = idx + 1]_matchVars

C5_Witness ==
  /\ idx = 2
  /\ Len(not_found) = 1
  /\ Len(rows) = 1
  /\ rows[1]["order"] = 2

\* --------------------------------------------- claims on extract_name_city

PairCount == Len(lines) \div 2

\* The input is n consecutive pairs (name line, city-token line), no name
\* line being a city token, noise or a header line.
PairsInput ==
  /\ Len(lines) = 2 * PairCount
  /\ \A p \in 1..PairCount :
        /\ ~NoiseLine(lines[2 * p - 1])
        /\ ~HeaderLine(lines[2 * p - 1])
        /\ ~CityToken(lines[2 * p - 1])
        /\ CityToken(lines[2 * p])

\* C6, as stated: on n pairs extract_name_city returns n candidates in
\* source order, the p-th with name = the p-th name line, city = the p-th
\* city line and key = "name, city".
C6_Original ==
  (ppc = "done" /\ PairsInput) =>
     /\ Len(results) = PairCount
     /\ \A p \in 1..PairCount :
           /\ results[p].name = lines[2 * p - 1]
           /\ results[p].city = lines[2 * p]
           /\ results[p].key = lines[2 * p - 1] \o ", " \o lines[2 * p]

\* What the p-th pair becomes: the name line squashed, the city line
\* stripped, the key assembled from both, then the final pass over each.
PairName(p) == StripChars(CollapseSpaces(squash_name(lines[2 * p - 1])), Punct)
PairCity(p) == StripChars(Strip(lines[2 * p]), Punct)
PairKey(p) ==
  StripChars(CollapseSpaces(squash_name(lines[2 * p - 1]) \o ", "
                              \o Strip(lines[2 * p])), Punct)

\* C6, amended: on n pairs extract_name_city returns n candidates in source
\* order, the p-th with name = the squashed and trimmed p-th name line,
\* city = the trimmed p-th city line, and key = the trimmed
\* "squashed name, city line"; a name line that squashing and trimming leave
\* alone is the name itself.
C6_PairsSquashed ==
  (ppc = "done" /\ PairsInput) =>
     /\ Len(results) = PairCount
     /\ \A p \in 1..PairCount :
           /\ results[p].name = PairName(p)
           /\ results[p].city = PairCity(p)
           /\ results[p].key = PairKey(p)
           /\ squash_name(lines[2 * p - 1]) = lines[2 * p - 1]
                 => results[p].name = lines[2 * p - 1]

\* Two pairs were parsed, the first name kept as it is, the second changed
\* by squash_name.
C6_Witness ==
  /\ ppc = "done"
  /\ PairsInput
  /\ PairCount = 2
  /\ Len(results) = 2
  /\ results[1].name = lines[1]
  /\ results[2].name # lines[3]

\* A line the walk skips when the cursor is on it.
Skippable(l) == NoiseLine(l) \/ HeaderLine(l)

\* C7: no noise or header line is ever part of a candidate's name or used
\* as the city that closes a record: whenever the walk appends a candidate,
\* neither the buffered lines, nor the lines from the cursor up to the city
\* line, nor the city line itself are noise or header lines.
C7_NoiseNeverUsed ==
  [][ (ppc = "walk" /\ ppc' = "walk" /\ Len(results') = Len(results) + 1) =>
        /\ \A b \in Range(buf_name) : ~Skippable(b)
        /\ \A k \in (i + 1)..i' : ~Skippable(lines[k]) ]_vars

\* ------------------------------------------------- claims on process_route

Stamped(p) == run[p].pc \in {"stamped", "written", "done"}

\* C8: any two invocations with the same output directory write to
\* different output paths.
C8_DistinctPaths ==
  \A p, q \in Runs :
     (p # q /\ Stamped(p) /\ Stamped(q)) => run[p].path # run[q].path

\* Line 240-248's condition, from the table alone: no column name equals or
\* contains an address or name candidate, and no text column has a mean
\* length above 10.
NoMatchColumn(df) ==
  \A p \in 1..Len(df.columns) :
     LET c == df.columns[p]
     IN /\ ~SubstringMatch(c, ADDRESS_CANDIDATES)
        /\ ~SubstringMatch(c, NAME_CANDIDATES)
        /\ ~(/\ IsObjectCol(df, c)
              /\ Len(df.rows) > 0
              /\ SumLen(df, c) > 10 * Len(df.rows))

NoMatchTables == { t \in RefPool : NoMatchColumn(t) }

\* Every route file was written by an invocation that got past line 271.
FilesFromWriters ==
  \A f \in DOMAIN files :
     \E q \in Runs : run[q].pc \in {"written", "done"} /\ run[q].path = f

\* C9: an invocation on a table with neither an address nor a name column
\* fails with an error that lists the table's columns, returns no report and
\* writes no route file.
C9_NoColumnFails ==
  /\ FilesFromWriters
  /\ \A p \in Runs :
        (run[p].pc # "idle" /\ run[p].ref_df \in NoMatchTables) =>
           /\ run[p].pc = "raised"
           /\ run[p].error = [type |-> "ValueError",
                              columns |-> run[p].ref_df.columns]
           /\ run[p].report = NoReport
           /\ run[p].path = NoPath

\* An invocation failed on the table with columns id and tag while the other
\* invocation has written its file.
C9_Witness ==
  \E p, q \in Runs :
     /\ run[p].pc = "raised"
     /\ run[p].ref_df.columns = <<"id", "tag">>
     /\ run[q].pc = "done"
     /\ Cardinality(DOMAIN files) = 1

\* C10: an invocation whose manifest has no text line, on a table with a
\* usable match column, does not fail, and returns found_count = 0,
\* total_count = 0, an empty not_found list and the path of a file it has
\* written.
C10_EmptyManifest ==
  \A p \in Runs :
     (/\ run[p].pc # "idle"
      /\ run[p].doc.opens
      /\ run[p].lines = <<>>
      /\ run[p].ref_df \notin NoMatchTables) =>
        /\ run[p].pc # "raised"
        /\ run[p].error = NoError
        /\ run[p].pc \in {"written", "done"} =>
              run[p].path \in DOMAIN files
        /\ run[p].pc = "done" =>
              /\ run[p].report.found_count = 0
              /\ run[p].report.total_count = 0
              /\ run[p].report.not_found = <<>>
              /\ run[p].report.output_file = run[p].path

\* An invocation with an empty manifest has returned its report, on the
\* table matched by its long text column.
C10_Witness ==
  \E p \in Runs :
     /\ run[p].pc = "done"
     /\ run[p].lines = <<>>
     /\ run[p].ref_df.columns = <<"id", "note">>
     /\ run[p].report.output_file \in DOMAIN files

\* C11: an invocation whose manifest document cannot be opened, or has a
\* page without text, does not fail on reading it: read_pdf_lines gives the
\* lines of the other pages (none at all for a document that cannot be
\* opened) and the invocation goes on to matching and its report.
C11_UnreadableGivesNoLines ==
  \A p \in Runs :
     (/\ run[p].pc # "idle"
      /\ (~run[p].doc.opens \/ NoneVal \in Range(run[p].doc.pages))
      /\ run[p].ref_df \notin NoMatchTables) =>
        /\ run[p].pc # "raised"
        /\ ~run[p].doc.opens => run[p].lines = <<>>

\* ---------------------------------------------- claims on the column choice

\* The columns of the table whose normalized name equals a normalized
\* candidate name.
ExactCols(candidates) ==
  { p \in 1..Len(ref_df.columns) : ExactMatch(ref_df.columns[p], candidates) }

ExactFirst(col, candidates) ==
  ExactCols(candidates) # {} => col = ref_df.columns[SetMin(ExactCols(candidates))]

\* C12: when a column's normalized name equals a normalized candidate name,
\* detect_col returns a column with an exact match (the first of them),
\* whatever columns before it contain a candidate name or hold long text.
C12_ExactPriority ==
  /\ pc \notin {"idle", "detect_addr"} =>
        ExactFirst(addr_col, ADDRESS_CANDIDATES)
  /\ pc \in {"detect_city", "choose", "matching", "raised"} =>
        ExactFirst(name_col, NAME_CANDIDATES)
  /\ pc \in {"choose", "matching", "raised"} =>
        ExactFirst(city_col, CITY_CANDIDATES)

\* detect_col has returned the exact address column that stands after a
\* column containing a candidate name and holding long text.
C12_Witness ==
  /\ pc = "detect_name"
  /\ ref_df.columns = <<"Addr 2", "Address">>
  /\ Len(ref_df.rows) = 1
  /\ ref_df.rows[1]["Addr 2"] = "Long street 12"
  /\ addr_col = "Address"

\* The score of reference row r for the candidate just processed.
ScoreOfRow(r) == name_match(keys[idx].key, ref_df.rows[r][used_col])

\* The rows of the working set with the highest score.
TopRows ==
  { r \in Range(loc.narrowed) :
      \A q \in Range(loc.narrowed) : ScoreOfRow(q) <= ScoreOfRow(r) }

C14_UsedIsNotCity ==
  pc = "matching" => used_col # city_col

\* C15: every column value of the matched reference row is carried unchanged
\* into the output row, whatever the table's column names are: each output
\* row of an invocation agrees with one row of the reference table on every
\* column of the table.
C15_ReferenceCarried ==
  \A p \in Runs :
     \A r \in 1..Len(run[p].out.rows) :
        \E k \in 1..Len(run[p].ref_df.rows) :
           \A c \in Range(run[p].ref_df.columns) :
              run[p].out.rows[r][c] = run[p].ref_df.rows[k][c]

\* ------------------------------------- more claims on extract_name_city

\* Street-type tokens of the address pattern.
StreetTokens == {"street", "ul.", "avenue"}

\* The line has a street-type token at its start or after a blank, followed
\* by a blank and a character that is neither a blank nor a comma.
HasStreet(l) ==
  \E w \in StreetTokens :
     \E p \in 1..Len(l) :
        /\ p + Len(w) + 1 <= Len(l)
        /\ Lower(SubSeq(l, p, p + Len(w) - 1)) = w
        /\ p > 1 => Ch(l, p - 1) = " "
        /\ Ch(l, p + Len(w)) = " "
        /\ Ch(l, p + Len(w) + 1) \notin {" ", ","}

StreetLines == { l \in LinePool : HasStreet(l) }

\* C16: when the walk ends with zero records and a line holds a street-type
\* token followed by a blank and further text, the result has a candidate
\* for it: city empty, key and name the same text, starting with the token.
C16_AddressFallback ==
  [][ (/\ ppc = "walk"
       /\ ppc' = "done"
       /\ Len(results) = 0
       /\ \E k \in 1..Len(lines) : lines[k] \in StreetLines) =>
        \E r \in 1..Len(results') :
           /\ results'[r].city = ""
           /\ results'[r].key = results'[r].name
           /\ \E w \in StreetTokens :
                 Lower(SubSeq(results'[r].key, 1, Len(w))) = w ]_vars

\* The cursor is on a line that is not a city token, the next line is not a
\* city token and the line two ahead is one.
ThreeLineCase ==
  /\ ppc = "walk"
  /\ i + 2 < Len(lines)
  /\ ~CityToken(lines[i + 1])
  /\ ~CityToken(lines[i + 2])
  /\ CityToken(lines[i + 3])

\* C17, as stated: in the three-line case one record is closed, its name the
\* current line and the next line joined by a blank, its city the line two
\* ahead; the buffer is then empty and the cursor three lines further.
C17_Original ==
  [][ ThreeLineCase =>
        /\ Len(results') = Len(results) + 1
        /\ results'[Len(results')].name = lines[i + 1] \o " " \o lines[i + 2]
        /\ results'[Len(results')].city = lines[i + 3]
        /\ buf_name' = <<>>
        /\ i' = i + 3 ]_vars

\* C17, amended: in the three-line case with the current line neither noise
\* nor a header line, one record is appended; its name is squash_name of the
\* current line and the next line joined by a blank (no line buffered
\* earlier), its city the stripped line two ahead, its key "name, city"; the
\* buffer is then empty and the cursor three lines further.
C17_ThreeLine ==
  [][ (ThreeLineCase /\ ~Skippable(lines[i + 1])) =>
        /\ results' = Append(results,
               [key |-> squash_name(lines[i + 1] \o " " \o lines[i + 2])
                          \o ", " \o Strip(lines[i + 3]),
                name |-> squash_name(lines[i + 1] \o " " \o lines[i + 2]),
                city |-> Strip(lines[i + 3])])
        /\ buf_name' = <<>>
        /\ i' = i + 3 ]_vars

\* The three-line record was closed with a line in the buffer: of four
\* lines the first three are no city tokens, the first was buffered, and
\* the record's name is made of the second and the third.
C17_Witness ==
  /\ ppc = "walk"
  /\ Len(lines) = 4
  /\ i = 4
  /\ \A k \in 1..3 : ~CityToken(lines[k]) /\ ~Skippable(lines[k])
  /\ CityToken(lines[4])
  /\ lines[1] # lines[2]
  /\ Len(results) = 1
  /\ results[1].name = squash_name(lines[2] \o " " \o lines[3])
  /\ buf_name = <<>>

\* The city-token lines among the lines the cursor has passed.
CitiesPassed == { k \in 1..i : CityToken(lines[k]) }

\* C18: the walk terminates (the loop condition i < len(lines) becomes
\* false); each iteration moves the cursor forward by 1, 2
\* or 3 and never beyond the end of the list; a candidate's city is the line
\* the cursor has just passed, so no line is the city of two candidates and
\* there are never more candidates than city-token lines passed.
C18_WalkTerminates ==
  /\ <>(ppc = "walk" /\ i >= Len(lines))
  /\ [](ppc # "idle" => i <= Len(lines))
  /\ [](ppc = "walk" => Len(results) <= Cardinality(CitiesPassed))
  /\ [][ (ppc = "walk" /\ i < Len(lines)) =>
            /\ i' \in {i + 1, i + 2, i + 3}
            /\ i' <= Len(lines)
            /\ Len(results') \in {Len(results), Len(results) + 1}
            /\ Len(results') = Len(results) + 1 =>
                  /\ i' \in {i + 2, i + 3}
                  /\ CityToken(lines[i'])
                  /\ results'[Len(results')].city = Strip(lines[i']) ]_vars

\* The walk is over on four lines: a skipped line (one step forward), then
\* a two-line name and its city (three steps forward).
C18_Witness ==
  /\ ppc = "done"
  /\ Len(lines) = 4
  /\ i = 4
  /\ Skippable(lines[1])
  /\ ~CityToken(lines[2]) /\ ~Skippable(lines[2])
  /\ ~CityToken(lines[3])
  /\ CityToken(lines[4])
  /\ Len(results) = 1

\* C19: a candidate's name is built only from lines after every earlier
\* city-token line: the buffer is empty whenever the cursor has just moved
\* past a city-token line, so it never holds more lines than the cursor has
\* passed since the last city-token line.
C19_BufferAfterCities ==
  ppc = "walk" =>
     /\ Len(buf_name) <= i - SetMax(CitiesPassed \cup {0})
     /\ (i > 0 /\ i \in CitiesPassed) => buf_name = <<>>

====
